---- MODULE Spec2Model ----
(***************************************************************************)
(* clcache.py: wrapper processes sharing one cache root.                   *)
(*                                                                         *)
(* Every wrapper invocation is one process of Procs.  The shared state is  *)
(* the cache root on disk (stats.txt, config.txt, the entry directories),  *)
(* the named mutex of the root and the header file the manifests refer to. *)
(* A file is modelled as a set: {} when it does not exist, {c} when it     *)
(* exists with content c.                                                  *)
(***************************************************************************)
EXTENDS Integers, Sequences, FiniteSets, TLC

\* ---------------------------------------------------------------- bounds
MaxObjSize == 2          \* object files have a size (= content id) in 1..MaxObjSize
MaxLimit   == 2          \* -M <size> is given a size in 1..MaxLimit
MaxCleanObj == 5         \* clean alone: objects have a size in 1..MaxCleanObj
MaxCleanMax == 11        \* clean alone: maximumSize is in 1..MaxCleanMax
MaxRecords == 2          \* manifest alone: at most MaxRecords records
MaxPathLen == 2          \* manifest alone: paths of 1..MaxPathLen characters

\* ------------------------------------------------------- program constants
DefaultMaximumCacheSize == 1048576000   \* Configuration._defaultValues

Procs == {"p1", "p2"}
NoProc == "none"
Keys == {"k1", "k2"}
Objs == 1 .. MaxObjSize
Limits == 1 .. MaxLimit
HeaderPath == "h.h"
CompilerCodes == {0, 2}

Counters == {"CallsWithoutSourceFile", "CallsWithMultipleSourceFiles",
             "CallsWithPch", "CallsForLinking",
             "CacheEntries", "CacheSize", "CacheHits", "CacheMisses"}

\* AnalysisResult (MultipleSourceFilesSimple is the fan-out, handled before the cache is opened)
SkipResults == {"NoSourceFile", "MultipleSourceFilesComplex", "CalledForLink",
                "CalledWithPch", "ExternalDebugInfo"}

Absent == {}
File(c) == {c}
Exists(f) == f # {}
Content(f) == CHOOSE c \in f : TRUE

Stdout(o) == <<"stdout", o>>     \* what the compiler run that produced object o printed
Stderr(o) == <<"stderr", o>>

VARIABLES
    mutex,       \* owner of the named mutex of the cache root, or NoProc
    statsFile,   \* stats.txt
    configFile,  \* config.txt (the MaximumCacheSize it holds)
    cache,       \* key -> entry directory
    lru,         \* the keys whose object exists, by ascending st_atime
    header,      \* current content hash of the included header
    pc,          \* position of each wrapper process
    inv,         \* the invocation of each process (argv and environment)
    mstats,      \* CacheStatistics._stats._dict of each process
    dirty,       \* CacheStatistics._stats._dirty of each process
    comp,        \* result of the real compiler run of each process
    outFile,     \* the outputFile of each process
    ev,          \* locals of ObjectCache.clean: currentSize, objectInfos
    rcode,       \* exit status of each finished process
    exc,         \* the exception that ended each process ("" when none did)
    fan,         \* a fan-out on its own: runJobs, its commands and its children
    args,        \* a command line on its own: argv, the CL variable, what the analysis gave
    pp,          \* per process: the return code of its /EP preprocessor run
    mf,          \* a manifest on its own: the records, the text written, the mapping read
    stats0,      \* history: stats.txt before any process started
    regs         \* history: the counters each process registered

vars == <<mutex, statsFile, configFile, cache, lru, header, pc, inv, mstats,
          dirty, comp, outFile, ev, rcode, exc, mf, pp, fan, args, stats0, regs>>

shared == <<statsFile, configFile, cache, lru, header>>

\* ------------------------------------------------------------- entries
NoEntry == [dir |-> FALSE, object |-> Absent, output |-> Absent,
            error |-> Absent, manifest |-> Absent]

EntryFiles == {"object", "output", "error", "manifest"}

\* an entry as a completed direct-mode insertion of object o leaves it
FullEntry(o, m) == [dir |-> TRUE, object |-> File(o), output |-> File(Stdout(o)),
                    error |-> File(Stderr(o)), manifest |-> File(m)]

\* manifests are kept as getManifest reads them: a set of <<path, hash>>
InitManifest == {<<HeaderPath, 1>>}

ZeroStats == [c \in Counters |-> 0]

RECURSIVE SumSizes(_, _)
SumSizes(c, ks) ==
    IF ks = {} THEN 0
    ELSE LET k == CHOOSE x \in ks : TRUE
         IN  (IF Exists(c[k].object) THEN Content(c[k].object) ELSE 0)
             + SumSizes(c, ks \ {k})

ObjectKeys(c) == {k \in Keys : Exists(c[k].object)}
EntryDirs(c) == {k \in Keys : c[k].dir}

\* ------------------------------------------------------ PersistentJSONDict
\* __init__ of CacheStatistics: load the file, missing counters become 0
LoadStats(f) == IF Exists(f) THEN Content(f) ELSE ZeroStats
LoadDirty(f) == ~Exists(f)

\* PersistentJSONDict.save: written only when dirty
SaveDict(f, d, isDirty) == IF isDirty THEN File(d) ELSE f

\* Configuration.maximumCacheSize after __init__ materialized the default
maximumCacheSize(f) == IF Exists(f) THEN Content(f) ELSE DefaultMaximumCacheSize

\* -------------------------------------------------------- ObjectCacheLock
\* a lock that lets every process in, whoever owns the mutex
lockEnter_noWait(p) == TRUE

acquire_signaledOnly(result) == result = 0

\* the mutex after its owner died without releasing it
Abandoned == "abandoned"

WAIT_ABANDONED == 128
WAIT_TIMEOUT == 258

\* windll.kernel32.WaitForSingleObject(self._mutex, self._timeoutMs), called
\* by a process that does not own the mutex: 0 as soon as the mutex is free,
\* WAIT_ABANDONED when its owner is dead, WAIT_TIMEOUT when a living owner
\* keeps it for the whole timeout
WaitForSingleObject ==
    IF mutex = NoProc THEN 0
    ELSE IF mutex = Abandoned THEN WAIT_ABANDONED
    ELSE WAIT_TIMEOUT

\* acquire: TRUE when _acquired gets set, FALSE when it raises
\* ObjectCacheLockException
acquire(result) == result = 0 \/ result = WAIT_ABANDONED

\* __enter__: acquire unless this process already holds the mutex
lockEnter(p) == mutex = p \/ acquire(WaitForSingleObject)

\* __exit__ after a scope entered by p: release whenever _acquired is set
lockExit(p) == NoProc

\* ---------------------------------------------------------- CacheStatistics
Bump(s, c, n) == [s EXCEPT ![c] = @ + n]
registerCacheHit(s) == Bump(s, "CacheHits", 1)
registerCacheMiss(s) == Bump(s, "CacheMisses", 1)
registerCacheEntry(s, size) == Bump(Bump(s, "CacheEntries", 1), "CacheSize", size)
setCacheSize(s, size) == [s EXCEPT !["CacheSize"] = size]
resetCounters(s) ==
    [c \in Counters |-> IF c \in {"CacheEntries", "CacheSize"} THEN s[c] ELSE 0]

SkipCounter(a) ==
    CASE a = "NoSourceFile" -> {"CallsWithoutSourceFile"}
      [] a = "MultipleSourceFilesComplex" -> {"CallsWithMultipleSourceFiles"}
      [] a = "CalledWithPch" -> {"CallsWithPch"}
      [] a = "CalledForLink" -> {"CallsForLinking"}
      [] OTHER -> {}

registerSkip(s, a) ==
    [c \in Counters |-> IF c \in SkipCounter(a) THEN s[c] + 1 ELSE s[c]]

\* ---------------------------------------------------------------- Init
\* argv and environment of one wrapper invocation
Invocations ==
    [cmd : {"-z"}, analysis : {"Ok"}, direct : {FALSE}, key : {"k1"}, size : {1}]
    \cup [cmd : {"-M"}, analysis : {"Ok"}, direct : {FALSE}, key : {"k1"}, size : Limits]
    \cup [cmd : {"cl"}, analysis : SkipResults, direct : {FALSE}, key : {"k1"}, size : {1}]
    \cup [cmd : {"cl"}, analysis : {"Ok"}, direct : {FALSE}, key : {"k1"}, size : {1}]
    \cup [cmd : {"cl"}, analysis : {"Ok"}, direct : {TRUE}, key : Keys, size : {1}]

NoInv == [cmd |-> "", analysis |-> "Ok", direct |-> FALSE, key |-> "k1", size |-> 1]
NoComp == [rc |-> 0, obj |-> 0, out |-> <<>>, err |-> <<>>]
NoFan == [st |-> "", j |-> 1, commands |-> <<>>, running |-> <<>>, out |-> 0,
          child |-> <<>>, exits |-> <<>>, returncode |-> 0]
NoArgs == [st |-> "", cmdLine |-> <<>>, CL |-> <<>>, analysisResult |-> "",
           sourceFiles |-> <<>>, commands |-> <<>>, j |-> 0]
NoMf == [st |-> "", data |-> <<>>, text |-> <<>>, error |-> FALSE, items |-> {}]
NoEv == [st |-> "", size0 |-> 0, cur |-> 0, max |-> 0, todo |-> <<>>, names |-> {}]

\* The cache root outlives the wrapper: Init draws it from the empty root and
\* from roots holding complete entries with matching statistics.
InitCaches == [Keys -> {NoEntry, FullEntry(1, InitManifest)}]

InitStats(c) ==
    IF EntryDirs(c) = {} THEN Absent
    ELSE File([ZeroStats EXCEPT !["CacheEntries"] = Cardinality(EntryDirs(c)),
                                !["CacheSize"] = SumSizes(c, Keys)])

InitLru(c) ==
    IF ObjectKeys(c) = Keys THEN {<<"k1", "k2">>, <<"k2", "k1">>}
    ELSE IF ObjectKeys(c) = {} THEN {<<>>}
    ELSE {<<CHOOSE k \in ObjectKeys(c) : TRUE>>}

Init ==
    /\ mutex = NoProc
    /\ cache \in InitCaches
    /\ statsFile = InitStats(cache)
    /\ stats0 = LoadStats(statsFile)
    /\ configFile \in {Absent} \cup {File(n) : n \in Limits}
    /\ lru \in InitLru(cache)
    /\ header = 1
    /\ pc = [p \in Procs |-> "idle"]
    /\ inv = [p \in Procs |-> NoInv]
    /\ mstats = [p \in Procs |-> ZeroStats]
    /\ dirty = [p \in Procs |-> FALSE]
    /\ comp = [p \in Procs |-> NoComp]
    /\ outFile = [p \in Procs |-> Absent]
    /\ ev = [p \in Procs |-> NoEv]
    /\ rcode = [p \in Procs |-> 0]
    /\ exc = [p \in Procs |-> ""]
    /\ regs = [p \in Procs |-> {}]
    /\ mf = NoMf
    /\ pp = [p \in Procs |-> 0]
    /\ fan = NoFan
    /\ args = NoArgs

\* ------------------------------------------------------------- helpers
Goto(p, l) == pc' = [pc EXCEPT ![p] = l]

\* the process ends; its memory is gone
Forget(p) ==
    /\ mstats' = [mstats EXCEPT ![p] = ZeroStats]
    /\ dirty' = [dirty EXCEPT ![p] = FALSE]
    /\ ev' = [ev EXCEPT ![p] = NoEv]

\* sys.exit(code)
Exit(p, code) ==
    /\ pc' = [pc EXCEPT ![p] = "done"]
    /\ rcode' = [rcode EXCEPT ![p] = code]
    /\ exc' = exc
    /\ Forget(p)

Crash_noRelease(p, e) ==
    /\ pc' = [pc EXCEPT ![p] = "crashed"]
    /\ rcode' = [rcode EXCEPT ![p] = 1]
    /\ exc' = [exc EXCEPT ![p] = e]
    /\ mutex' = mutex
    /\ Forget(p)

\* an uncaught exception: every enclosing with-block runs __exit__, which
\* releases the mutex if this process holds it
Crash(p, e) ==
    /\ pc' = [pc EXCEPT ![p] = "crashed"]
    /\ rcode' = [rcode EXCEPT ![p] = 1]     \* the interpreter's exit status
    /\ exc' = [exc EXCEPT ![p] = e]
    /\ mutex' = IF mutex = p THEN NoProc ELSE mutex
    /\ Forget(p)

Registered(p, cs) == regs' = [regs EXCEPT ![p] = @ \cup cs]

Finished(p) == pc[p] \in {"done", "crashed"}

\* ------------------------------------------------ module-level dispatch
\* a wrapper process starts: argv, the environment and the outputFile left by
\* an earlier build are the inputs (the processes are interchangeable, and so
\* are the keys: p2 is the process that starts second, k1 the key used first)
Start(p) ==
    /\ pc[p] = "idle"
    /\ p = "p2" => pc["p1"] # "idle"
    /\ \E i \in Invocations :
         /\ i.key = "k2" => \E q \in Procs : inv[q].cmd = "cl" /\ inv[q].direct
         /\ inv' = [inv EXCEPT ![p] = i]
         /\ Goto(p, CASE i.cmd = "-z" -> "z_load"
                      [] i.cmd = "-M" -> "m_load"
                      [] OTHER -> "loadstats")
         /\ \E pre \in (IF i.cmd = "cl" /\ i.analysis = "Ok" /\ i.direct
                        THEN {Absent, File(1)} ELSE {Absent}) :
              outFile' = [outFile EXCEPT ![p] = pre]
    /\ UNCHANGED <<mutex, shared, mstats, dirty, comp, ev, rcode, exc, mf, fan, args, pp, stats0, regs>>

\* the included header is edited
EditHeader ==
    /\ header = 1
    /\ header' = 2
    /\ UNCHANGED <<mutex, statsFile, configFile, cache, lru, pc, inv, mf, fan, args, pp, mstats,
                   dirty, comp, outFile, ev, rcode, exc, stats0, regs>>

\* resetStatistics: with cache.lock: stats = CacheStatistics(cache); the nested
\* scope of CacheStatistics.__init__ releases the mutex on its way out
ResetStatistics_load(p) ==
    /\ pc[p] = "z_load"
    /\ lockEnter(p)
    /\ mstats' = [mstats EXCEPT ![p] = LoadStats(statsFile)]
    /\ dirty' = [dirty EXCEPT ![p] = LoadDirty(statsFile)]
    /\ mutex' = lockExit(p)
    /\ Goto(p, "z_save")
    /\ UNCHANGED <<shared, inv, mf, fan, args, pp, comp, outFile, ev, rcode, exc, stats0, regs>>

\* stats.resetCounters(); stats.save(); sys.exit(0)
ResetStatistics_save(p) ==
    /\ pc[p] = "z_save"
    /\ lockEnter(p)
    /\ statsFile' = SaveDict(statsFile, resetCounters(mstats[p]), TRUE)
    /\ mutex' = lockExit(p)
    /\ Exit(p, 0)
    /\ UNCHANGED <<configFile, cache, lru, header, inv, mf, fan, args, pp, comp, outFile, stats0, regs>>

\* -M <size>: with cache.lock: cfg = Configuration(cache)
\* (the loaded dictionary is not kept: the one key is overwritten below)
SetMaximum_load(p) ==
    /\ pc[p] = "m_load"
    /\ lockEnter(p)
    /\ mutex' = lockExit(p)
    /\ Goto(p, "m_save")
    /\ UNCHANGED <<shared, inv, mf, fan, args, pp, mstats, dirty, comp, outFile, ev, rcode, exc, stats0, regs>>

\* cfg.setMaximumCacheSize(int(sys.argv[2])); cfg.save(); sys.exit(0)
SetMaximum_save(p) ==
    /\ pc[p] = "m_save"
    /\ lockEnter(p)
    /\ configFile' = SaveDict(configFile, inv[p].size, TRUE)
    /\ mutex' = lockExit(p)
    /\ Exit(p, 0)
    /\ UNCHANGED <<statsFile, cache, lru, header, inv, mf, fan, args, pp, comp, outFile, stats0, regs>>

\* stats = CacheStatistics(cache): the file is read inside its own lock scope
CacheStatistics_init(p) ==
    /\ pc[p] = "loadstats"
    /\ lockEnter(p)
    /\ mstats' = [mstats EXCEPT ![p] = LoadStats(statsFile)]
    /\ dirty' = [dirty EXCEPT ![p] = LoadDirty(statsFile)]
    /\ mutex' = lockExit(p)
    /\ Goto(p, IF inv[p].analysis # "Ok" THEN "skip" ELSE "key")
    /\ UNCHANGED <<shared, inv, mf, fan, args, pp, comp, outFile, ev, rcode, exc, stats0, regs>>

\* analysisResult != Ok: with cache.lock: the counter of the reason is
\* registered and stats.save() writes stats.txt; the __exit__ of the nested
\* scope of save releases the mutex
Skip_save(p) ==
    /\ pc[p] = "skip"
    /\ LET s == registerSkip(mstats[p], inv[p].analysis)
           d == dirty[p] \/ SkipCounter(inv[p].analysis) # {}
       IN  /\ lockEnter(p)
           /\ mstats' = [mstats EXCEPT ![p] = s]
           /\ dirty' = [dirty EXCEPT ![p] = d]
           /\ statsFile' = SaveDict(statsFile, s, d)
           /\ mutex' = lockExit(p)
    /\ Registered(p, SkipCounter(inv[p].analysis))
    /\ Goto(p, "skip_cc")
    /\ UNCHANGED <<configFile, cache, lru, header, inv, mf, fan, args, pp, comp, outFile, ev, rcode, exc, stats0>>

\* sys.exit(invokeRealCompiler(compiler, sys.argv[1:])[0])
Skip_invokeRealCompiler(p) ==
    /\ pc[p] = "skip_cc"
    /\ \E rc \in CompilerCodes : Exit(p, rc)
    /\ UNCHANGED <<mutex, shared, inv, mf, fan, args, pp, comp, outFile, stats0, regs>>

\* ------------------------------------------------------------ fingerprint
preprocessorFailed_asCrash(returncode) == IF returncode = 0 THEN 0 ELSE 1

\* computeKeyEP: sys.exit(preprocessor.returncode)
preprocessorFailed(returncode) == returncode

\* cachekey = cache.computeKey(compiler, cmdLine, sourceFile).  computeKeyEP
\* runs the preprocessor and exits with its code when it fails;
\* computeKeyDirect hashes the command line and the source file.
computeKey(p) ==
    /\ pc[p] = "key"
    /\ IF inv[p].direct
       THEN /\ Goto(p, "hashit")
            /\ UNCHANGED <<pp, mstats, dirty, ev, rcode, exc>>
       ELSE \E returncode \in CompilerCodes :
              /\ pp' = [pp EXCEPT ![p] = returncode]
              /\ IF returncode # 0
                 THEN Exit(p, preprocessorFailed(returncode))
                 ELSE /\ Goto(p, "hashit")
                      /\ UNCHANGED <<mstats, dirty, ev, rcode, exc>>
    /\ UNCHANGED <<mutex, shared, inv, mf, fan, args, comp, outFile, stats0, regs>>

\* hasHit without CLCACHE_DIRECT: "return hasEntry(hashkey)" names no
\* function of the module, the call raises NameError
hasHit_preprocessed(p) ==
    /\ pc[p] = "hashit"
    /\ ~inv[p].direct
    /\ Crash(p, "NameError")
    /\ UNCHANGED <<shared, inv, mf, fan, args, pp, comp, outFile, stats0, regs>>

\* hasHit with CLCACHE_DIRECT: checkManifest enters the lock and calls
\* hasManifest, whose nested scope releases the mutex when it returns
checkManifest_hasManifest(p) ==
    /\ pc[p] = "hashit"
    /\ inv[p].direct
    /\ lockEnter(p)
    /\ mutex' = lockExit(p)
    /\ Goto(p, IF Exists(cache[inv[p].key].manifest) THEN "cm_read" ELSE "compile")
    /\ UNCHANGED <<shared, inv, mf, fan, args, pp, mstats, dirty, comp, outFile, ev, rcode, exc, stats0, regs>>

\* a comparison that looks at the recorded paths and not at the hashes
ManifestMatches_pathsOnly(md, h) == \A r \in md : r[1] = HeaderPath

\* every file of the manifest exists and hashes to the recorded value
ManifestMatches(md, h) == \A r \in md : r[1] = HeaderPath /\ r[2] = h

\* what checkManifest returns on an entry: False without manifest.txt
checkManifest(e, h) == Exists(e.manifest) /\ ManifestMatches(Content(e.manifest), h)

\* ... then getManifest and the comparison of every recorded file; open()
\* raises IOError when manifest.txt is gone by now
checkManifest_compare(p) ==
    /\ pc[p] = "cm_read"
    /\ LET m == cache[inv[p].key].manifest
       IN  IF ~Exists(m)
           THEN Crash(p, "IOError")
           ELSE /\ Goto(p, IF ManifestMatches(Content(m), header) THEN "hit" ELSE "compile")
                /\ UNCHANGED <<mutex, mstats, dirty, ev, rcode, exc>>
    /\ UNCHANGED <<shared, inv, mf, fan, args, pp, comp, outFile, stats0, regs>>

\* ----------------------------------------------------------------- hit path
\* with cache.lock: stats.registerCacheHit(); stats.save()
Hit_save(p) ==
    /\ pc[p] = "hit"
    /\ lockEnter(p)
    /\ mstats' = [mstats EXCEPT ![p] = registerCacheHit(@)]
    /\ dirty' = [dirty EXCEPT ![p] = TRUE]
    /\ statsFile' = SaveDict(statsFile, registerCacheHit(mstats[p]), TRUE)
    /\ mutex' = lockExit(p)
    /\ Registered(p, {"CacheHits"})
    /\ Goto(p, "hit_copy")
    /\ UNCHANGED <<configFile, cache, lru, header, inv, mf, fan, args, pp, comp, outFile, ev, rcode, exc, stats0>>

Touch(l, k) == SelectSeq(l, LAMBDA x : x # k) \o <<k>>
Without(l, k) == SelectSeq(l, LAMBDA x : x # k)

\* if os.path.exists(outputFile): os.remove(outputFile)
\* copyOrLink(cache.cachedObjectName(cachekey), outputFile)
\* (reading the object may or may not update its access time)
Hit_copyOrLink(p) ==
    /\ pc[p] = "hit_copy"
    /\ LET o == cache[inv[p].key].object
       IN  IF ~Exists(o)
           THEN /\ outFile' = [outFile EXCEPT ![p] = Absent]
                /\ Crash(p, "IOError")
                /\ lru' = lru
           ELSE /\ outFile' = [outFile EXCEPT ![p] = o]
                /\ Goto(p, "hit_replay")
                /\ lru' \in {lru, Touch(lru, inv[p].key)}
                /\ UNCHANGED <<mutex, mstats, dirty, ev, rcode, exc>>
    /\ UNCHANGED <<statsFile, configFile, cache, header, inv, mf, fan, args, pp, comp, stats0, regs>>

\* sys.stderr.write(cache.cachedCompilerError(cachekey))
\* sys.stdout.write(cache.cachedCompilerOutput(cachekey)); sys.exit(0)
Hit_replay(p) ==
    /\ pc[p] = "hit_replay"
    /\ LET e == cache[inv[p].key]
       IN  IF Exists(e.error) /\ Exists(e.output) THEN Exit(p, 0) /\ mutex' = mutex
           ELSE Crash(p, "IOError")
    /\ UNCHANGED <<shared, inv, mf, fan, args, pp, comp, outFile, stats0, regs>>

\* ---------------------------------------------------------------- miss path
\* invokeRealCompiler(compiler, cmdLine, captureOutput=True): the exit code
\* and the object the compiler wrote (0: it wrote none)
invokeRealCompiler(p) ==
    /\ pc[p] = "compile"
    /\ \E rc \in CompilerCodes, o \in {0} \cup Objs :
         /\ rc # 0 => o = 0
         /\ comp' = [comp EXCEPT ![p] = [rc |-> rc, obj |-> o,
                                          out |-> Stdout(o), err |-> Stderr(o)]]
         /\ outFile' = [outFile EXCEPT ![p] = IF o # 0 THEN File(o) ELSE @]
    /\ Goto(p, "miss_enter")
    /\ UNCHANGED <<mutex, shared, inv, mf, fan, args, pp, mstats, dirty, ev, rcode, exc, stats0, regs>>

\* with cache.lock: stats.registerCacheMiss()
\*     if returnCode == 0 and os.path.exists(outputFile): ...
Miss_enter(p) ==
    /\ pc[p] = "miss_enter"
    /\ lockEnter(p)
    /\ mutex' = p
    /\ mstats' = [mstats EXCEPT ![p] = registerCacheMiss(@)]
    /\ dirty' = [dirty EXCEPT ![p] = TRUE]
    /\ Registered(p, {"CacheMisses"})
    /\ Goto(p, IF comp[p].rc = 0 /\ Exists(outFile[p])
               THEN (IF inv[p].direct THEN "incl" ELSE "setentry")
               ELSE "miss_save")
    /\ UNCHANGED <<shared, inv, mf, fan, args, pp, comp, outFile, ev, rcode, exc, stats0>>

\* includefiles = cache.getDirectIncludeFiles(compiler, cmdLine) runs the
\* compiler with /E.  The list it returns holds the paths of the #line
\* directives followed by one (hash, path) tuple per path; the loop
\* "for fn in includefiles: h = cache.hashFile(fn)" raises TypeError on the
\* first tuple, so only the empty list gets past it.
Miss_getDirectIncludeFiles(p) ==
    /\ pc[p] = "incl"
    /\ \E lineDirectives \in BOOLEAN :
         IF lineDirectives
         THEN Crash(p, "TypeError")
         ELSE /\ Goto(p, "wman")
              /\ UNCHANGED <<mutex, mstats, dirty, ev, rcode, exc>>
    /\ UNCHANGED <<shared, inv, mf, fan, args, pp, comp, outFile, stats0, regs>>

\* ------------------------------------------------------------- manifest.txt
\* A text is a sequence of characters; a record is <<hash, path>>, both texts.
Space == " "
Newline == "\n"
Whitespace == {Space, Newline}

\* writeManifest: for d in data: m.write(d[0] + " " + d[1])
manifestText(data) ==
    LET F[i \in 0 .. Len(data)] ==
            IF i = 0 THEN <<>>
            ELSE F[i - 1] \o data[i][1] \o <<Space>> \o data[i][2]
    IN  F[Len(data)]

\* the lines a file object iterates over, in order: each ends with its
\* newline, the last one may not
FileLines(text) ==
    LET ends == {i \in 1 .. Len(text) : text[i] = Newline} \cup
                (IF text # <<>> /\ text[Len(text)] # Newline THEN {Len(text)} ELSE {})
        before(e) == {j \in ends : j < e}
        start(e) == IF before(e) = {} THEN 1
                    ELSE 1 + CHOOSE j \in before(e) : \A j2 \in before(e) : j2 <= j
        nth(n) == CHOOSE e \in ends : Cardinality(before(e)) = n - 1
    IN  [n \in 1 .. Cardinality(ends) |-> SubSeq(text, start(nth(n)), nth(n))]

\* str.strip()
Strip(line) ==
    LET keep == {i \in 1 .. Len(line) : line[i] \notin Whitespace}
    IN  IF keep = {} THEN <<>>
        ELSE SubSeq(line, CHOOSE i \in keep : \A j \in keep : i <= j,
                          CHOOSE i \in keep : \A j \in keep : j <= i)

\* str.split(" ", 1): <<before, after>> the first space, <<line>> without one
SplitOnce(line) ==
    LET sp == {i \in 1 .. Len(line) : line[i] = Space}
    IN  IF sp = {} THEN <<line>>
        ELSE LET i == CHOOSE x \in sp : \A y \in sp : x <= y
             IN  <<SubSeq(line, 1, i - 1), SubSeq(line, i + 1, Len(line))>>

\* getManifest: items[tmp[1]] = tmp[0] for every line in order; tmp[1] raises
\* IndexError on a line without a space.  The dictionary is kept as the set
\* of its <<path, hash>> items.
getManifest(text) ==
    LET lines == FileLines(text)
        tmp(n) == SplitOnce(Strip(lines[n]))
        items[n \in 0 .. Len(lines)] ==
            IF n = 0 THEN {}
            ELSE IF Len(tmp(n)) < 2 THEN items[n - 1]
            ELSE {it \in items[n - 1] : it[1] # tmp(n)[2]} \cup {<<tmp(n)[2], tmp(n)[1]>>}
    IN  [error |-> \E n \in 1 .. Len(lines) : Len(tmp(n)) < 2,
         items |-> items[Len(lines)]]

\* the content of manifest.txt after writeManifest, as getManifest reads it
\* back (the dispatch only ever gets to write the empty list)
writeManifest(data) == File(getManifest(manifestText(data)).items)

\* cache.writeManifest(cachekey, m): open(..., 'w') raises IOError when the
\* entry directory does not exist; the scope of writeManifest releases the mutex
Miss_writeManifest(p) ==
    /\ pc[p] = "wman"
    /\ LET k == inv[p].key
       IN  IF ~cache[k].dir
           THEN /\ Crash(p, "IOError")
                /\ cache' = cache
           ELSE /\ lockEnter(p)
                /\ cache' = [cache EXCEPT ![k].manifest = writeManifest(<<>>)]
                /\ mutex' = lockExit(p)
                /\ Goto(p, "setentry")
                /\ UNCHANGED <<mstats, dirty, ev, rcode, exc>>
    /\ UNCHANGED <<statsFile, configFile, lru, header, inv, mf, fan, args, pp, comp, outFile, stats0, regs>>

setEntry_swapped(e, obj, out, err) ==
    [e EXCEPT !.dir = TRUE, !.object = obj, !.output = File(err), !.error = File(out)]

\* ObjectCache.hasEntry(key): os.path.exists(self.cachedObjectName(key))
hasEntry(e) == Exists(e.object)

\* ObjectCache.setEntry(key, objectFileName, compilerOutput, compilerError)
setEntry(e, obj, out, err) ==
    [e EXCEPT !.dir = TRUE, !.object = obj, !.output = File(out), !.error = File(err)]

\* cache.setEntry(cachekey, outputFile, compilerOutput, compilerError)
Miss_setEntry(p) ==
    /\ pc[p] = "setentry"
    /\ lockEnter(p)
    /\ LET k == inv[p].key
       IN  /\ cache' = [cache EXCEPT ![k] = setEntry(@, outFile[p], comp[p].out, comp[p].err)]
           /\ lru' = Touch(lru, k)
    /\ mutex' = lockExit(p)
    /\ Goto(p, "regentry")
    /\ UNCHANGED <<statsFile, configFile, header, inv, mf, fan, args, pp, mstats, dirty, comp, outFile,
                   ev, rcode, exc, stats0, regs>>

\* stats.registerCacheEntry(os.path.getsize(outputFile))
\* cfg = Configuration(cache), which reads config.txt in its own lock scope
Miss_registerCacheEntry(p) ==
    /\ pc[p] = "regentry"
    /\ lockEnter(p)
    /\ mstats' = [mstats EXCEPT ![p] = registerCacheEntry(@, Content(outFile[p]))]
    /\ ev' = [ev EXCEPT ![p].max = maximumCacheSize(configFile)]
    /\ mutex' = lockExit(p)
    /\ Registered(p, {"CacheEntries"})
    /\ Goto(p, "clean")
    /\ UNCHANGED <<shared, inv, mf, fan, args, pp, dirty, comp, outFile, rcode, exc, stats0>>

\* ------------------------------------------------------------ ObjectCache.clean
\* a sort of the objects by descending st_atime
objectInfos_newestFirst(c, l) ==
    [i \in 1 .. Len(l) |-> [key |-> l[Len(l) + 1 - i],
                            size |-> Content(c[l[Len(l) + 1 - i]].object)]]

\* objectInfos: (st_size, key) of every entry that has an object, by st_atime
RECURSIVE objectInfos(_, _)
objectInfos(c, l) ==
    IF l = <<>> THEN <<>>
    ELSE <<[key |-> Head(l), size |-> Content(c[Head(l)].object)]>>
         \o objectInfos(c, Tail(l))

\* a loop that stops as soon as the size is below maximumSize itself
belowEffectiveMaximum_noMargin(cur, max) == cur < max

\* a loop that goes on down to half of maximumSize
belowEffectiveMaximum_half(cur, max) == 2 * cur < max

\* currentSize < effectiveMaximumSize, effectiveMaximumSize = maximumSize * 0.9
belowEffectiveMaximum(cur, max) == 10 * cur < 9 * max

FilesOf(e) == {f \in EntryFiles : Exists(e[f])}

\* cache.clean(stats, cfg.maximumCacheSize()): nothing to do below the
\* maximum; otherwise the walk, the stats and the sort (with no object found
\* the loop body never runs and setCacheSize stores the size it read)
clean_enter(p) ==
    /\ pc[p] = "clean"
    /\ lockEnter(p)
    /\ LET cur == mstats[p]["CacheSize"]
           infos == objectInfos(cache, lru)
       IN  IF cur < ev[p].max \/ infos = <<>>
           THEN /\ mutex' = lockExit(p)
                /\ Goto(p, "miss_save")
                /\ ev' = [ev EXCEPT ![p].st = "returned", ![p].size0 = cur, ![p].cur = cur]
           ELSE /\ mutex' = p
                /\ ev' = [ev EXCEPT ![p].st = "walk", ![p].size0 = cur, ![p].cur = cur,
                                    ![p].todo = infos,
                                    ![p].names = FilesOf(cache[Head(infos).key])]
                /\ Goto(p, "evict")
    /\ UNCHANGED <<shared, inv, mf, fan, args, pp, mstats, dirty, comp, outFile, rcode, exc, stats0, regs>>

\* rmtree(os.path.split(fn)[0]) unlinks the files of the entry directory one
\* by one, in the order of the directory listing
clean_rmtree_unlink(p) ==
    /\ pc[p] = "evict"
    /\ ev[p].todo # <<>>
    /\ LET k == Head(ev[p].todo).key
       IN  \E f \in ev[p].names :
                /\ cache' = [cache EXCEPT ![k][f] = Absent]
                /\ lru' = IF f = "object" THEN Without(lru, k) ELSE lru
                /\ ev' = [ev EXCEPT ![p].names = @ \ {f}]
    /\ UNCHANGED <<mutex, statsFile, configFile, header, pc, inv, mf, fan, args, pp, mstats, dirty,
                   comp, outFile, rcode, exc, stats0, regs>>

\* ... then the directory itself; currentSize -= stat.st_size; the loop ends
\* below the effective maximum or with the last entry, and
\* stats.setCacheSize(currentSize) ends clean
clean_rmtree_rmdir(p) ==
    /\ pc[p] = "evict"
    /\ ev[p].todo # <<>>
    /\ LET k == Head(ev[p].todo).key
           cur == ev[p].cur - Head(ev[p].todo).size
           rest == Tail(ev[p].todo)
       IN  /\ ev[p].names = {}
           /\ cache' = [cache EXCEPT ![k].dir = FALSE]
           /\ IF belowEffectiveMaximum(cur, ev[p].max) \/ rest = <<>>
              THEN /\ mstats' = [mstats EXCEPT ![p] = setCacheSize(@, cur)]
                   /\ ev' = [ev EXCEPT ![p].st = "returned", ![p].cur = cur, ![p].todo = <<>>]
                   /\ mutex' = lockExit(p)
                   /\ Goto(p, "miss_save")
              ELSE /\ ev' = [ev EXCEPT ![p].cur = cur, ![p].todo = rest,
                                       ![p].names = FilesOf(cache[Head(rest).key])]
                   /\ UNCHANGED <<mutex, mstats, pc>>
    /\ UNCHANGED <<statsFile, configFile, lru, header, inv, mf, fan, args, pp, dirty, comp, outFile,
                   rcode, exc, stats0, regs>>

\* stats.save(); the captured streams are written; sys.exit(returnCode)
Miss_save(p) ==
    /\ pc[p] = "miss_save"
    /\ lockEnter(p)
    /\ statsFile' = SaveDict(statsFile, mstats[p], dirty[p])
    /\ mutex' = lockExit(p)
    /\ Exit(p, comp[p].rc)
    /\ UNCHANGED <<configFile, cache, lru, header, inv, mf, fan, args, pp, comp, outFile, stats0, regs>>

\* ------------------------------------------------------------ lock timeout
\* the positions at which a process enters a lock scope
LockPoints == {"z_load", "z_save", "m_load", "m_save", "loadstats", "skip",
               "hit", "miss_enter", "setentry", "regentry", "clean", "miss_save"}

\* WaitForSingleObject times out while another process owns the mutex:
\* acquire raises ObjectCacheLockException
LockTimeout(p) ==
    /\ pc[p] \in LockPoints \/ (pc[p] = "hashit" /\ inv[p].direct)
    /\ ~lockEnter(p)
    /\ Crash(p, "ObjectCacheLockException")
    /\ UNCHANGED <<shared, inv, mf, fan, args, pp, comp, outFile, stats0, regs>>

Next ==
    \/ EditHeader
    \/ \E p \in Procs :
        \/ Start(p)
        \/ ResetStatistics_load(p)
        \/ ResetStatistics_save(p)
        \/ SetMaximum_load(p)
        \/ SetMaximum_save(p)
        \/ CacheStatistics_init(p)
        \/ Skip_save(p)
        \/ Skip_invokeRealCompiler(p)
        \/ computeKey(p)
        \/ hasHit_preprocessed(p)
        \/ checkManifest_hasManifest(p)
        \/ checkManifest_compare(p)
        \/ Hit_save(p)
        \/ Hit_copyOrLink(p)
        \/ Hit_replay(p)
        \/ invokeRealCompiler(p)
        \/ Miss_enter(p)
        \/ Miss_getDirectIncludeFiles(p)
        \/ Miss_writeManifest(p)
        \/ Miss_setEntry(p)
        \/ Miss_registerCacheEntry(p)
        \/ clean_enter(p)
        \/ clean_rmtree_unlink(p)
        \/ clean_rmtree_rmdir(p)
        \/ Miss_save(p)
        \/ LockTimeout(p)

Spec == Init /\ [][Next]_vars

\* ------------------------------------------------- with abandoned mutexes
\* A wrapper that owns the mutex is terminated from outside (the build is
\* cancelled): no __exit__ runs and the mutex stays abandoned.
Kill(p) ==
    /\ mutex = p
    /\ ~Finished(p)
    /\ pc' = [pc EXCEPT ![p] = "crashed"]
    /\ rcode' = [rcode EXCEPT ![p] = 1]
    /\ exc' = [exc EXCEPT ![p] = "killed"]
    /\ mutex' = Abandoned
    /\ Forget(p)
    /\ UNCHANGED <<shared, inv, mf, fan, args, pp, comp, outFile, stats0, regs>>

NextKill == Next \/ \E p \in Procs : Kill(p)

SpecKill == Init /\ [][NextKill]_vars

\* ------------------------------------------------------- clean on its own
\* The tail of a miss, from the call of cache.clean on: process p1 has just
\* stored the entry of k1 and registered it; the other entry, the sizes, the
\* size the statistics had before (which the overwritten entry or an earlier
\* lost update may have left off the sum) and maximumSize are drawn.
CleanProc == "p1"
CleanInv == [cmd |-> "cl", analysis |-> "Ok", direct |-> TRUE, key |-> "k1", size |-> 1]
CleanSizes == 1 .. MaxCleanObj

InitClean ==
    /\ mutex = NoProc
    /\ \E o1 \in CleanSizes, before \in 0 .. MaxCleanObj :
         /\ \E e2 \in {NoEntry} \cup {FullEntry(o, InitManifest) : o \in CleanSizes} :
              cache = [k \in Keys |-> IF k = "k1" THEN FullEntry(o1, {}) ELSE e2]
         /\ stats0 = [ZeroStats EXCEPT
                         !["CacheEntries"] = Cardinality(EntryDirs(cache)),
                         !["CacheSize"] = before + SumSizes(cache, Keys \ {"k1"})]
         /\ statsFile = File(stats0)
         /\ comp = [p \in Procs |-> IF p = CleanProc
                                       THEN [rc |-> 0, obj |-> o1, out |-> Stdout(o1),
                                             err |-> Stderr(o1)]
                                       ELSE NoComp]
         /\ outFile = [p \in Procs |-> IF p = CleanProc THEN File(o1) ELSE Absent]
         /\ mstats = [p \in Procs |->
                        IF p = CleanProc
                        THEN registerCacheEntry(registerCacheMiss(stats0), o1)
                        ELSE ZeroStats]
    /\ configFile \in {File(n) : n \in 1 .. MaxCleanMax}
    /\ lru \in {l \in InitLru(cache) : l[Len(l)] = "k1"}
    /\ header = 2
    /\ pc = [p \in Procs |-> IF p = CleanProc THEN "clean" ELSE "idle"]
    /\ inv = [p \in Procs |-> IF p = CleanProc THEN CleanInv ELSE NoInv]
    /\ dirty = [p \in Procs |-> p = CleanProc]
    /\ ev = [p \in Procs |->
                IF p = CleanProc THEN [NoEv EXCEPT !.max = maximumCacheSize(configFile)]
                ELSE NoEv]
    /\ rcode = [p \in Procs |-> 0]
    /\ exc = [p \in Procs |-> ""]
    /\ regs = [p \in Procs |-> IF p = CleanProc THEN {"CacheMisses", "CacheEntries"} ELSE {}]
    /\ mf = NoMf
    /\ pp = [p \in Procs |-> 0]
    /\ fan = NoFan
    /\ args = NoArgs

NextClean ==
    \/ clean_enter(CleanProc)
    \/ clean_rmtree_unlink(CleanProc)
    \/ clean_rmtree_rmdir(CleanProc)
    \/ Miss_save(CleanProc)

SpecClean == InitClean /\ [][NextClean]_vars

\* ---------------------------------------------------- manifest on its own
\* writeManifest followed by getManifest on drawn records with distinct,
\* newline-free paths; nothing else of the cache root takes part.
PathChars == {"a", "b"}
HashTexts == {<<"x">>, <<"y">>}
PathTexts == UNION {[1 .. n -> PathChars] : n \in 1 .. MaxPathLen}
Records == HashTexts \X PathTexts
ManifestData ==
    {d \in UNION {[1 .. n -> Records] : n \in 0 .. MaxRecords} :
        \A i, j \in 1 .. Len(d) : i # j => d[i][2] # d[j][2]}

InitRoundTrip ==
    /\ mutex = NoProc
    /\ cache = [k \in Keys |-> NoEntry]
    /\ statsFile = Absent
    /\ stats0 = ZeroStats
    /\ configFile = Absent
    /\ lru = <<>>
    /\ header = 1
    /\ pc = [p \in Procs |-> "idle"]
    /\ inv = [p \in Procs |-> NoInv]
    /\ mstats = [p \in Procs |-> ZeroStats]
    /\ dirty = [p \in Procs |-> FALSE]
    /\ comp = [p \in Procs |-> NoComp]
    /\ outFile = [p \in Procs |-> Absent]
    /\ ev = [p \in Procs |-> NoEv]
    /\ rcode = [p \in Procs |-> 0]
    /\ exc = [p \in Procs |-> ""]
    /\ regs = [p \in Procs |-> {}]
    /\ \E d \in ManifestData : mf = [NoMf EXCEPT !.data = d]
    /\ pp = [p \in Procs |-> 0]
    /\ fan = NoFan
    /\ args = NoArgs

\* cache.writeManifest(key, data)
RoundTrip_writeManifest ==
    /\ mf.st = ""
    /\ mf' = [mf EXCEPT !.st = "written", !.text = manifestText(mf.data)]
    /\ UNCHANGED <<mutex, shared, pc, inv, pp, fan, args, mstats, dirty, comp, outFile, ev, rcode,
                   exc, stats0, regs>>

\* cache.getManifest(key)
RoundTrip_getManifest ==
    /\ mf.st = "written"
    /\ mf' = [mf EXCEPT !.st = "read", !.error = getManifest(mf.text).error,
                        !.items = getManifest(mf.text).items]
    /\ UNCHANGED <<mutex, shared, pc, inv, pp, fan, args, mstats, dirty, comp, outFile, ev, rcode,
                   exc, stats0, regs>>

NextRoundTrip == RoundTrip_writeManifest \/ RoundTrip_getManifest

SpecRoundTrip == InitRoundTrip /\ [][NextRoundTrip]_vars

\* ---------------------------------------------------- setEntry on its own
\* One call of setEntry by p1 for k1: the entry it finds (none, a directory
\* holding only the manifest just written, a complete older entry), the
\* object the compiler wrote and the two captured texts are drawn.
Payloads == {<<>>, <<"w">>, <<"e">>}

InitSetEntry ==
    /\ mutex = NoProc
    /\ \E e1 \in {NoEntry, [NoEntry EXCEPT !.dir = TRUE, !.manifest = File({})]}
                  \cup {FullEntry(o, InitManifest) : o \in Objs} :
         /\ cache = [k \in Keys |-> IF k = "k1" THEN e1 ELSE NoEntry]
         /\ lru = IF Exists(e1.object) THEN <<"k1">> ELSE <<>>
         /\ stats0 = [ZeroStats EXCEPT
                         !["CacheEntries"] = Cardinality(EntryDirs(cache)),
                         !["CacheSize"] = SumSizes(cache, Keys)]
    /\ statsFile = File(stats0)
    /\ \E o \in Objs, out \in Payloads, err \in Payloads :
         /\ comp = [p \in Procs |-> IF p = CleanProc
                                       THEN [rc |-> 0, obj |-> o, out |-> out, err |-> err]
                                       ELSE NoComp]
         /\ outFile = [p \in Procs |-> IF p = CleanProc THEN File(o) ELSE Absent]
    /\ configFile = Absent
    /\ header = 1
    /\ pc = [p \in Procs |-> IF p = CleanProc THEN "setentry" ELSE "idle"]
    /\ inv = [p \in Procs |-> IF p = CleanProc THEN CleanInv ELSE NoInv]
    /\ mstats = [p \in Procs |-> IF p = CleanProc THEN registerCacheMiss(stats0)
                                  ELSE ZeroStats]
    /\ dirty = [p \in Procs |-> p = CleanProc]
    /\ ev = [p \in Procs |-> NoEv]
    /\ rcode = [p \in Procs |-> 0]
    /\ exc = [p \in Procs |-> ""]
    /\ regs = [p \in Procs |-> IF p = CleanProc THEN {"CacheMisses"} ELSE {}]
    /\ mf = NoMf
    /\ pp = [p \in Procs |-> 0]
    /\ fan = NoFan
    /\ args = NoArgs

NextSetEntry == Miss_setEntry(CleanProc)

SpecSetEntry == InitSetEntry /\ [][NextSetEntry]_vars

\* ---------------------------------------------------- runJobs on its own
\* runJobs(commands, j) and the children it starts.  A child is numbered by
\* the position of its command; Child_exit is the child process ending by
\* itself, with the exit code it chooses.
MaxJ == 2
MaxJobs == 3
ExitCodes == {0, 2, 3}

InitJobs ==
    /\ mutex = NoProc
    /\ cache = [k \in Keys |-> NoEntry]
    /\ statsFile = Absent
    /\ stats0 = ZeroStats
    /\ configFile = Absent
    /\ lru = <<>>
    /\ header = 1
    /\ pc = [p \in Procs |-> "idle"]
    /\ inv = [p \in Procs |-> NoInv]
    /\ mstats = [p \in Procs |-> ZeroStats]
    /\ dirty = [p \in Procs |-> FALSE]
    /\ comp = [p \in Procs |-> NoComp]
    /\ outFile = [p \in Procs |-> Absent]
    /\ ev = [p \in Procs |-> NoEv]
    /\ rcode = [p \in Procs |-> 0]
    /\ exc = [p \in Procs |-> ""]
    /\ regs = [p \in Procs |-> {}]
    /\ mf = NoMf
    /\ pp = [p \in Procs |-> 0]
    /\ args = NoArgs
    /\ \E j \in 1 .. MaxJ, n \in 1 .. MaxJobs :
         fan = [NoFan EXCEPT !.st = "loop", !.j = j,
                             !.commands = [i \in 1 .. n |-> i],
                             !.child = [i \in 1 .. n |-> [st |-> "new", returncode |-> 0]]]

JobsFrame ==
    UNCHANGED <<mutex, shared, pc, inv, pp, args, mstats, dirty, comp, outFile, ev, rcode,
                exc, mf, stats0, regs>>

\* the child process c ends
Child_exit(c) ==
    /\ c \in DOMAIN fan.child
    /\ fan.child[c].st = "running"
    /\ \E code \in ExitCodes :
         fan' = [fan EXCEPT !.child[c] = [st |-> "exited", returncode |-> code],
                            !.exits = Append(@, c)]
    /\ JobsFrame

Reaped_ignoresFailure(f, c) == [f EXCEPT !.st = "loop", !.out = 0]

Reaped_anyFailureIsOne(f, c) ==
    IF f.child[c].returncode # 0
    THEN [f EXCEPT !.st = "returned", !.returncode = 1, !.out = 0]
    ELSE [f EXCEPT !.st = "loop", !.out = 0]

\* runJobs after waitForAnyProcess gave a child: "if thiscode != 0: return thiscode"
Reaped(f, c) ==
    IF f.child[c].returncode # 0
    THEN [f EXCEPT !.st = "returned", !.returncode = f.child[c].returncode, !.out = 0]
    ELSE [f EXCEPT !.st = "loop", !.out = 0]

\* the wait loops are entered: "while len(running) > j" while commands are
\* left, "while len(running) > 0" after the last one
Waits(f) ==
    IF f.commands # <<>> THEN Len(f.running) > f.j ELSE Len(f.running) > 0

\* thiscmd = commands.pop(0); running.append(Popen(thiscmd))
runJobs_launch ==
    /\ fan.st = "loop"
    /\ fan.commands # <<>>
    /\ ~Waits(fan)
    /\ LET c == Head(fan.commands)
       IN  fan' = [fan EXCEPT !.commands = Tail(@), !.running = Append(@, c),
                              !.child[c].st = "running"]
    /\ JobsFrame

\* waitForAnyProcess(running): the first child of the list that poll() finds
\* ended is removed and returned; when none has ended the first child of
\* the list is removed and waited for
waitForAnyProcess_poll ==
    /\ fan.st = "loop"
    /\ Waits(fan)
    /\ LET ended == SelectSeq(fan.running, LAMBDA c : fan.child[c].st = "exited")
       IN  IF ended # <<>>
           THEN LET out == Head(ended)
                IN  fan' = Reaped([fan EXCEPT !.running = SelectSeq(@, LAMBDA c : c # out)],
                                  out)
           ELSE fan' = [fan EXCEPT !.st = "blocked", !.out = Head(fan.running),
                                   !.running = Tail(@)]
    /\ JobsFrame

\* out.wait() returns
waitForAnyProcess_wait ==
    /\ fan.st = "blocked"
    /\ fan.child[fan.out].st = "exited"
    /\ fan' = Reaped(fan, fan.out)
    /\ JobsFrame

\* return 0
runJobs_return ==
    /\ fan.st = "loop"
    /\ fan.commands = <<>>
    /\ fan.running = <<>>
    /\ fan' = [fan EXCEPT !.st = "returned", !.returncode = 0]
    /\ JobsFrame

NextJobs ==
    \/ \E c \in 1 .. MaxJobs : Child_exit(c)
    \/ runJobs_launch
    \/ waitForAnyProcess_poll
    \/ waitForAnyProcess_wait
    \/ runJobs_return

SpecJobs == InitJobs /\ [][NextJobs]_vars

\* ----------------------------------------------- the command line on its own
\* An argument is the sequence of its characters.  analyzeCommandLine and,
\* for MultipleSourceFilesSimple, reinvokePerSourceFile with jobCount are
\* applied to drawn command lines and values of the CL environment variable.
MaxArgs == 4

optionsWithParameter ==
    <<<<"O", "b">>, <<"G", "s">>, <<"F", "a">>, <<"F", "d">>, <<"F", "m">>,
      <<"F", "p">>, <<"F", "R">>, <<"d", "o", "c">>, <<"F", "A">>, <<"F", "e">>,
      <<"F", "o">>, <<"F", "r">>, <<"A", "I">>, <<"F", "I">>, <<"F", "U">>,
      <<"D">>, <<"U">>, <<"I">>, <<"Z", "p">>, <<"v", "m">>,
      <<"M", "P">>, <<"T", "c">>, <<"V">>, <<"w", "d">>, <<"w", "o">>,
      <<"W">>, <<"Y", "c">>, <<"Y", "l">>, <<"T", "p">>, <<"w", "e">>,
      <<"Y", "u">>, <<"Z", "m">>, <<"F">>>>

Digits == {"0", "1", "2", "3", "4", "5", "6", "7", "8", "9"}

Arguments ==
    {<<"/", "c">>, <<"/", "Z", "i">>, <<"/", "Y", "u", "h">>, <<"/", "l", "i", "n", "k">>,
     <<"/", "T", "p", "a">>, <<"/", "T", "c", "b">>,
     <<"/", "M", "P">>, <<"/", "M", "P", "2">>,
     <<"a">>, <<"b">>}

CommandLines == UNION {[1 .. n -> Arguments] : n \in 1 .. MaxArgs}

\* os.environ['CL'].split(' '), <<>> when CL is not set
Environments == {<<>>, <<<<"/", "M", "P">>>>, <<<<"/", "M", "P", "3">>>>}

\* multiprocessing.cpu_count() of the machine
cpu_count == 4

\* arg[1:len(opt)+1] == opt
HasPrefix(arg, opt) == Len(arg) >= Len(opt) + 1 /\ SubSeq(arg, 2, Len(opt) + 1) = opt

\* "for opt in optionsWithParameter: ... break": the first option that
\* matches, 0 when none does
FirstOption(arg) ==
    LET ms == {i \in 1 .. Len(optionsWithParameter) : HasPrefix(arg, optionsWithParameter[i])}
    IN  IF ms = {} THEN 0 ELSE CHOOSE i \in ms : \A k \in ms : i <= k

\* parseCommandLine from argument i on; options is the list of the (key,
\* value) pairs in the order they were stored, a key without parameter has
\* param FALSE.  cmdline[i+1] past the end raises IndexError.
RECURSIVE parseFrom(_, _, _, _)
parseFrom(cmdline, i, options, sourceFiles) ==
    IF i > Len(cmdline)
    THEN [error |-> FALSE, options |-> options, sourceFiles |-> sourceFiles]
    ELSE LET arg == cmdline[i]
         IN  IF arg[1] \in {"/", "-"}
             THEN LET o == FirstOption(arg)
                  IN  IF o = 0
                      THEN parseFrom(cmdline, i + 1,
                                     Append(options, [key |-> Tail(arg), value |-> <<>>,
                                                      param |-> FALSE]),
                                     sourceFiles)
                      ELSE LET opt == optionsWithParameter[o]
                           IN  IF Len(arg) > Len(opt) + 1
                               THEN parseFrom(cmdline, i + 1,
                                        Append(options,
                                               [key |-> opt, param |-> TRUE,
                                                value |-> SubSeq(arg, Len(opt) + 2, Len(arg))]),
                                        sourceFiles)
                               ELSE IF i + 1 > Len(cmdline)
                               THEN [error |-> TRUE, options |-> options,
                                     sourceFiles |-> sourceFiles]
                               ELSE parseFrom(cmdline, i + 2,
                                        Append(options, [key |-> opt, param |-> TRUE,
                                                         value |-> cmdline[i + 1]]),
                                        sourceFiles)
             ELSE IF arg[1] = "@"
             THEN parseFrom(cmdline, i + 1, options, sourceFiles)
             ELSE parseFrom(cmdline, i + 1, options, Append(sourceFiles, arg))

parseCommandLine(cmdline) == parseFrom(cmdline, 1, <<>>, <<>>)

\* 'key' in options
InOptions(options, key) == \E i \in 1 .. Len(options) : options[i].key = key

\* options[key]
OptionValues(options, key) ==
    LET es == SelectSeq(options, LAMBDA e : e.key = key)
    IN  [i \in 1 .. Len(es) |-> es[i].value]

AnalysisOf(r, fs) == [result |-> r, sourceFiles |-> fs]

analyzeCommandLine_pchFirst(cmdline) ==
    LET parsed == parseCommandLine(cmdline)
        options == parsed.options
        sourceFiles == parsed.sourceFiles \o OptionValues(options, <<"T", "p">>)
                                         \o OptionValues(options, <<"T", "c">>)
        compl == InOptions(options, <<"T", "p">>) \/ InOptions(options, <<"T", "c">>)
    IN  IF parsed.error THEN AnalysisOf("IndexError", <<>>)
        ELSE IF InOptions(options, <<"Y", "u">>) THEN AnalysisOf("CalledWithPch", <<>>)
        ELSE IF InOptions(options, <<"Z", "i">>) THEN AnalysisOf("ExternalDebugInfo", <<>>)
        ELSE IF InOptions(options, <<"l", "i", "n", "k">>) \/ ~InOptions(options, <<"c">>)
        THEN AnalysisOf("CalledForLink", <<>>)
        ELSE IF Len(sourceFiles) = 0 THEN AnalysisOf("NoSourceFile", <<>>)
        ELSE IF Len(sourceFiles) > 1
        THEN IF compl THEN AnalysisOf("MultipleSourceFilesComplex", <<>>)
             ELSE AnalysisOf("MultipleSourceFilesSimple", sourceFiles)
        ELSE AnalysisOf("Ok", <<sourceFiles[1]>>)

\* analyzeCommandLine(cmdline): the AnalysisResult and the source file(s)
\* returned with it
analyzeCommandLine(cmdline) ==
    LET parsed == parseCommandLine(cmdline)
        options == parsed.options
        sourceFiles == parsed.sourceFiles \o OptionValues(options, <<"T", "p">>)
                                         \o OptionValues(options, <<"T", "c">>)
        compl == InOptions(options, <<"T", "p">>) \/ InOptions(options, <<"T", "c">>)
    IN  IF parsed.error THEN AnalysisOf("IndexError", <<>>)
        ELSE IF InOptions(options, <<"Z", "i">>) THEN AnalysisOf("ExternalDebugInfo", <<>>)
        ELSE IF InOptions(options, <<"Y", "u">>) THEN AnalysisOf("CalledWithPch", <<>>)
        ELSE IF InOptions(options, <<"l", "i", "n", "k">>) \/ ~InOptions(options, <<"c">>)
        THEN AnalysisOf("CalledForLink", <<>>)
        ELSE IF Len(sourceFiles) = 0 THEN AnalysisOf("NoSourceFile", <<>>)
        ELSE IF Len(sourceFiles) > 1
        THEN IF compl THEN AnalysisOf("MultipleSourceFilesComplex", <<>>)
             ELSE AnalysisOf("MultipleSourceFilesSimple", sourceFiles)
        ELSE AnalysisOf("Ok", <<sourceFiles[1]>>)

\* re.search(r'^/MP\d+$', switch) != None
IsMPSwitch(switch) ==
    /\ Len(switch) >= 4
    /\ SubSeq(switch, 1, 3) = <<"/", "M", "P">>
    /\ \A i \in 4 .. Len(switch) : switch[i] \in Digits

DigitValue(d) ==
    CASE d = "0" -> 0 [] d = "1" -> 1 [] d = "2" -> 2 [] d = "3" -> 3 [] d = "4" -> 4
      [] d = "5" -> 5 [] d = "6" -> 6 [] d = "7" -> 7 [] d = "8" -> 8 [] d = "9" -> 9

\* int(count)
RECURSIVE int(_)
int(count) ==
    IF count = <<>> THEN 0
    ELSE 10 * int(SubSeq(count, 1, Len(count) - 1)) + DigitValue(count[Len(count)])

\* jobCount(cmdLine), with the switches of CL in front
jobCount(CL, cmdLine) ==
    LET mp_switch == SelectSeq(CL \o cmdLine, IsMPSwitch)
    IN  IF Len(mp_switch) = 0 THEN 1
        ELSE LET count == SubSeq(mp_switch[Len(mp_switch)], 4, Len(mp_switch[Len(mp_switch)]))
             IN  IF count # <<>> THEN int(count) ELSE cpu_count

\* arg in sourceFiles
InList(arg, list) == \E i \in 1 .. Len(list) : list[i] = arg

\* [sys.executable, sys.argv[0]]
Self == <<<<"python">>, <<"clcache.py">>>>

\* reinvokePerSourceFile: the child commands, one per element of sourceFiles
reinvokePerSourceFile(cmdLine, sourceFiles) ==
    [n \in 1 .. Len(sourceFiles) |->
        Self \o SelectSeq(cmdLine, LAMBDA arg : arg = sourceFiles[n]
                                                 \/ ~InList(arg, sourceFiles))]

InitArgs ==
    /\ mutex = NoProc
    /\ cache = [k \in Keys |-> NoEntry]
    /\ statsFile = Absent
    /\ stats0 = ZeroStats
    /\ configFile = Absent
    /\ lru = <<>>
    /\ header = 1
    /\ pc = [p \in Procs |-> "idle"]
    /\ inv = [p \in Procs |-> NoInv]
    /\ mstats = [p \in Procs |-> ZeroStats]
    /\ dirty = [p \in Procs |-> FALSE]
    /\ comp = [p \in Procs |-> NoComp]
    /\ outFile = [p \in Procs |-> Absent]
    /\ ev = [p \in Procs |-> NoEv]
    /\ rcode = [p \in Procs |-> 0]
    /\ exc = [p \in Procs |-> ""]
    /\ regs = [p \in Procs |-> {}]
    /\ mf = NoMf
    /\ pp = [p \in Procs |-> 0]
    /\ fan = NoFan
    /\ \E c \in CommandLines, e \in Environments :
         args = [NoArgs EXCEPT !.cmdLine = c, !.CL = e]

ArgsFrame ==
    UNCHANGED <<mutex, shared, pc, inv, pp, fan, mstats, dirty, comp, outFile, ev, rcode,
                exc, mf, stats0, regs>>

\* analysisResult, sourceFile, outputFile = analyzeCommandLine(cmdLine)
Args_analyzeCommandLine ==
    /\ args.st = ""
    /\ LET a == analyzeCommandLine(args.cmdLine)
       IN  args' = [args EXCEPT !.st = "analyzed", !.analysisResult = a.result,
                                !.sourceFiles = a.sourceFiles]
    /\ ArgsFrame

\* if analysisResult == MultipleSourceFilesSimple:
\*     sys.exit(reinvokePerSourceFile(cmdLine, sourceFile))
Args_reinvokePerSourceFile ==
    /\ args.st = "analyzed"
    /\ args.analysisResult = "MultipleSourceFilesSimple"
    /\ args' = [args EXCEPT !.st = "fanout",
                            !.commands = reinvokePerSourceFile(args.cmdLine, args.sourceFiles),
                            !.j = jobCount(args.CL, args.cmdLine)]
    /\ ArgsFrame

NextArgs == Args_analyzeCommandLine \/ Args_reinvokePerSourceFile

SpecArgs == InitArgs /\ [][NextArgs]_vars

\* ------------------------------------------------- the fan-out, followed down
\* One path of the process tree of a batch invocation: runJobs starts child n
\* with Popen, the child is clcache.py again, with the child command as its
\* sys.argv and the environment of its parent, and analyses its own command
\* line. An invocation that is not a fan-out goes on to the cache or to the
\* compiler (the steps of Spec) and exits; IndexError ends it at once.

\* running.append(Popen(thiscmd)): the child starts at the top of the script
FanOut_Popen(n) ==
    /\ args.st = "fanout"
    /\ n \in 1 .. Len(args.commands)
    /\ args' = [NoArgs EXCEPT !.cmdLine = SubSeq(args.commands[n], 3, Len(args.commands[n])),
                              !.CL = args.CL]
    /\ ArgsFrame

\* analysisResult is not MultipleSourceFilesSimple: no re-invocation
FanOut_proceed ==
    /\ args.st = "analyzed"
    /\ args.analysisResult # "MultipleSourceFilesSimple"
    /\ args' = [args EXCEPT !.st = "exited"]
    /\ ArgsFrame

\* the longest command line whose fan-out is followed down
MaxFanArgs == 3

\* the build starts clcache.py: sys.argv[1:] and the CL variable are the inputs
FanOut_main ==
    /\ args.st = "start"
    /\ \E c \in {l \in CommandLines : Len(l) <= MaxFanArgs}, e \in Environments :
         args' = [NoArgs EXCEPT !.cmdLine = c, !.CL = e]
    /\ ArgsFrame

InitFanOut ==
    /\ mutex = NoProc
    /\ cache = [k \in Keys |-> NoEntry]
    /\ statsFile = Absent
    /\ stats0 = ZeroStats
    /\ configFile = Absent
    /\ lru = <<>>
    /\ header = 1
    /\ pc = [p \in Procs |-> "idle"]
    /\ inv = [p \in Procs |-> NoInv]
    /\ mstats = [p \in Procs |-> ZeroStats]
    /\ dirty = [p \in Procs |-> FALSE]
    /\ comp = [p \in Procs |-> NoComp]
    /\ outFile = [p \in Procs |-> Absent]
    /\ ev = [p \in Procs |-> NoEv]
    /\ rcode = [p \in Procs |-> 0]
    /\ exc = [p \in Procs |-> ""]
    /\ regs = [p \in Procs |-> {}]
    /\ mf = NoMf
    /\ pp = [p \in Procs |-> 0]
    /\ fan = NoFan
    /\ args = [NoArgs EXCEPT !.st = "start"]

NextFanOut ==
    \/ FanOut_main
    \/ NextArgs
    \/ \E n \in 1 .. MaxArgs : FanOut_Popen(n)
    \/ FanOut_proceed

\* every started process runs: the interpreter and the scheduler are fair
SpecFanOut == InitFanOut /\ [][NextFanOut]_vars /\ WF_vars(NextFanOut)

\* ===================================================================== claims
Count(c) == Cardinality({p \in Procs : c \in regs[p]})
Saved(c) == LoadStats(statsFile)[c]

\* the process that takes the step
Acts(p) == pc'[p] # pc[p] \/ ev'[p] # ev[p]

\* C1: once all the wrapper processes have exited normally, every counter
\* of stats.txt (hits, misses, entries, the skip counters) is its value
\* before they started plus the number of invocations that registered it.
C1_NoLostIncrement ==
    (\A p \in Procs : pc[p] = "done" /\ inv[p].cmd = "cl")
        => \A c \in Counters \ {"CacheSize"} : Saved(c) = stats0[c] + Count(c)

\* C2: every step that writes stats.txt, config.txt or a file of an entry is
\* taken by one process, which holds the mutex for the write: no other
\* process owns the mutex when the step starts or when it ends.
C2_WritesUnderLock ==
    [][(statsFile' # statsFile \/ configFile' # configFile \/ cache' # cache)
        => \E p \in Procs :
              /\ Acts(p)
              /\ \A q \in Procs \ {p} : ~Acts(q)
              /\ mutex \in {NoProc, p}
              /\ mutex' \in {NoProc, p}]_vars

\* a process is part-way through removing an entry, the mutex is its own,
\* and the other process waits to enter a lock scope
C2_Witness ==
    \E p \in Procs, q \in Procs :
        /\ pc[p] = "evict" /\ mutex = p /\ ev[p].todo # <<>>
        /\ ~Exists(cache[Head(ev[p].todo).key].object)
        /\ pc[q] \in LockPoints

\* the positions inside an outer "with cache.lock:" region of the dispatch,
\* after a nested scope has been left
OuterRegion == {"z_save", "m_save", "incl", "wman", "setentry", "regentry",
                "clean", "evict", "miss_save"}

\* C3: a process inside an outer lock region still holds the mutex after
\* it entered and left a nested lock scope.
C3_HeldUntilOutermostExit ==
    \A p \in Procs : pc[p] \in OuterRegion => mutex = p

\* all the files of a served entry
EntryComplete(e) ==
    e.dir /\ Exists(e.object) /\ Exists(e.output) /\ Exists(e.error)

SavedNext(c) == LoadStats(statsFile')[c]

\* the step with which process p leaves position l
Leaves(p, l) == pc[p] = l /\ pc'[p] # l

Cached(k, direct) ==
    /\ EntryComplete(cache[k])
    /\ direct => checkManifest(cache[k], header)

Returned(p) == pc[p] = "miss_save" /\ ev[p].st = "returned"

\* C10 (P3/I3) as stated: after clean returns, whatever the size was on
\* entry, stats.CacheSize is at most 0.9 x maximumSize.
C10_AtMostEffectiveMaximum ==
    \A p \in Procs :
        Returned(p) => 10 * mstats[p]["CacheSize"] <= 9 * ev[p].max

\* C10 as the code has it: after clean returns, either the size on entry was
\* below maximumSize and stats.CacheSize is unchanged, or stats.CacheSize is
\* below 0.9 x maximumSize, or no entry with an object is left.
C10_CleanPostcondition ==
    \A p \in Procs :
        Returned(p)
            => \/ /\ ev[p].size0 < ev[p].max
                  /\ mstats[p]["CacheSize"] = ev[p].size0
               \/ 10 * mstats[p]["CacheSize"] < 9 * ev[p].max
               \/ ObjectKeys(cache) = {}

\* clean was entered at or above maximumSize, evicted the older entry and
\* stopped below 0.9 x maximumSize with the newer entry left
C10_Witness ==
    \E p \in Procs :
        /\ Returned(p)
        /\ ev[p].size0 >= ev[p].max
        /\ ObjectKeys(cache) = {"k1"}
        /\ ~cache["k2"].dir
        /\ mstats[p]["CacheSize"] > 0
        /\ 10 * mstats[p]["CacheSize"] < 9 * ev[p].max

\* a step removes a file of the entry of key k
Removes(k) == \E f \in EntryFiles : Exists(cache[k][f]) /\ ~Exists(cache'[k][f])

C13_ManifestRoundTrip ==
    mf.st = "read"
        => /\ ~mf.error
           /\ mf.items = {<<mf.data[i][2], mf.data[i][1]>> : i \in 1 .. Len(mf.data)}

\* two records were written and read back
C13_Witness == mf.st = "read" /\ Len(mf.data) = 2

\* C14 (P1): when setEntry(k, objectPath, stdout, stderr) completes, hasEntry(k)
\* is true, the stored object has the bytes of objectPath, and output.txt and
\* error.txt hold exactly the two given texts, empty ones included.
C14_SetEntryStores ==
    [][\A p \in Procs :
         (Leaves(p, "setentry") /\ pc'[p] = "regentry")
            => LET e == cache'[inv[p].key]
               IN  /\ hasEntry(e)
                   /\ e.object = outFile[p]
                   /\ e.output = File(comp[p].out)
                   /\ e.error = File(comp[p].err)]_vars

C14_Witness ==
    /\ pc[CleanProc] = "regentry"
    /\ comp[CleanProc].out = <<>> /\ comp[CleanProc].err = <<"e">>
    /\ cache["k1"].output = File(<<>>) /\ cache["k1"].error = File(<<"e">>)
    /\ cache["k1"].object = File(2)

\* the positions whose next step runs the compiler binary as a subprocess:
\* invokeRealCompiler (skip and miss paths), the /EP run of computeKeyEP and
\* the /E run of getDirectIncludeFiles
CompilerPoints == {"skip_cc", "key", "compile", "incl"}

\* C15: no wrapper process holds the Lock while a compiler subprocess it
\* started is running.
C15_NoLockAcrossCompiler ==
    \A p \in Procs : pc[p] \in CompilerPoints => mutex # p

C15_Witness ==
    \E p, q \in Procs : /\ pc[p] = "incl" /\ mutex = p
                         /\ q # p /\ pc[q] \in LockPoints

\* the step in which acquire raises in process p
Raises(p) == exc[p] # "ObjectCacheLockException" /\ exc'[p] = "ObjectCacheLockException"

\* C16: an acquire succeeds iff the wait result is signaled or abandoned-mutex
\* (a dead owner does not block); on any other result it raises, the caller
\* does not hold the Lock, and the invocation exits nonzero without the cache,
\* statistics or configuration mutation of the lock region.
C16_AcquireOutcome ==
    [][\A p \in Procs :
         /\ Raises(p) => /\ WaitForSingleObject \notin {0, WAIT_ABANDONED}
                         /\ mutex' # p
                         /\ pc'[p] = "crashed" /\ rcode'[p] # 0
                         /\ shared' = shared
         /\ (pc[p] \in LockPoints /\ Acts(p) /\ ~Raises(p) /\ mutex # p)
               => WaitForSingleObject \in {0, WAIT_ABANDONED}
         /\ (pc[p] \in LockPoints /\ mutex = Abandoned) => ~Raises(p)]_vars

C16_Witness ==
    \E p, q \in Procs : exc[q] = "killed" /\ mutex = p /\ pc[p] = "incl"

\* C17: the Lock is released on every exit path of a lock scope: a wrapper
\* process that has finished, normally or with an exception or sys.exit
\* raised inside a lock region, does not hold the Lock.
C17_ReleasedWhenFinished ==
    \A p \in Procs : Finished(p) => mutex # p

C17_Witness ==
    \E p, q \in Procs : /\ pc[p] = "crashed" /\ exc[p] = "TypeError"
                         /\ p # q /\ mutex = q

\* the invocation of p registered a miss and then died of an IOError raised
\* while it wrote the entry
InsertFailed(p) ==
    pc[p] = "crashed" /\ exc[p] = "IOError" /\ "CacheMisses" \in regs[p]

\* C18: after an I/O error while writing an entry during a miss there is no
\* partial object in the cache, the miss is counted in stats.txt, CacheEntries
\* and CacheSize are as before, and the wrapper exits with the real compiler's
\* exit code.
C18_IOErrorAbandonsInsert ==
    \A p \in Procs :
        InsertFailed(p)
          => /\ rcode[p] = comp[p].rc
             /\ Saved("CacheMisses") >= stats0["CacheMisses"] + 1
             /\ EntryComplete(cache[inv[p].key]) \/ ~Exists(cache[inv[p].key].object)

C18_Witness ==
    \E p \in Procs : /\ InsertFailed(p) /\ cache[inv[p].key] = NoEntry
                      /\ comp[p].rc = 0 /\ rcode[p] = 1 /\ statsFile = Absent

\* C19: in preprocessed mode, when the /EP run made for the fingerprint exits
\* non-zero the wrapper exits with that same code; the invocation has not run
\* the real compiler to compile, has created or changed no cache entry and
\* has changed no counter persisted in stats.txt.
C19_PreprocessorFailure ==
    [][\A p \in Procs :
         /\ (Leaves(p, "key") /\ pp'[p] # 0)
               => /\ pc'[p] = "done" /\ rcode'[p] = pp'[p]
                  /\ comp'[p] = NoComp /\ regs'[p] = {}
         /\ (Acts(p) /\ pc[p] \in {"idle", "loadstats", "key"})
               => cache' = cache /\ statsFile' = statsFile]_vars

C19_Witness ==
    \E p \in Procs : /\ pc[p] = "done" /\ ~inv[p].direct /\ pp[p] = 2 /\ rcode[p] = 2
                      /\ cache["k1"] # NoEntry /\ statsFile # Absent

\* C20: on the skip path exactly the counter of the classification is
\* incremented by one and saved under the Lock before the real compiler
\* runs; every other counter in stats.txt and every cache entry stay as
\* they were (ExternalDebugInfo has no counter).
C20_SkipCountsOne ==
    [][\A p \in Procs :
         (Leaves(p, "skip") /\ pc'[p] = "skip_cc")
            => /\ \A c \in Counters :
                    Saved(c)' = Saved(c) + (IF c \in SkipCounter(inv[p].analysis) THEN 1 ELSE 0)
               /\ cache' = cache
               /\ mutex \in {NoProc, p}]_vars

C20_Witness ==
    \E p \in Procs : /\ pc[p] = "done" /\ inv[p].analysis = "CalledWithPch"
                      /\ rcode[p] = 2
                      /\ Saved("CallsWithPch") = stats0["CallsWithPch"] + 1

\* the files of an entry that hold what the compiler produced
ResultFiles == {"object", "output", "error"}

Unreaped == Len(fan.running) + (IF fan.st = "blocked" THEN 1 ELSE 0)

\* C22: while runJobs(commands, j) executes, the number of children it has
\* launched and not yet reaped never exceeds j.
C22_AtMostJChildren == Unreaped <= fan.j

C22_Witness ==
    /\ fan.j = 2 /\ Len(fan.running) = 3
    /\ \A c \in 1 .. 3 : fan.child[c].st = "running"

\* a child has ended with a nonzero code
Failed(c) == fan.child[c].st = "exited" /\ fan.child[c].returncode # 0

\* the children waitForAnyProcess has handed to runJobs
ReapedChildren ==
    {c \in DOMAIN fan.child :
        /\ fan.child[c].st = "exited"
        /\ ~\E i \in 1 .. Len(fan.running) : fan.running[i] = c
        /\ fan.out # c}

FirstFailure ==
    LET bad == SelectSeq(fan.exits, LAMBDA c : fan.child[c].returncode # 0)
    IN  IF bad = <<>> THEN 0 ELSE fan.child[Head(bad)].returncode

AllSucceeded ==
    /\ fan.commands = <<>>
    /\ \A c \in DOMAIN fan.child : fan.child[c].st = "exited" /\ fan.child[c].returncode = 0

ChildArgs(n) == SubSeq(args.commands[n], 3, Len(args.commands[n]))

IsSource(arg) == InList(arg, args.sourceFiles)

\* C25 (P8): reinvokePerSourceFile builds one child command per source file
\* of the list; each child's argv holds exactly one source file, its own,
\* once, and all non-source arguments of the command line in their order.
C25_OneSourcePerChild ==
    args.st = "fanout"
       => /\ Len(args.commands) = Len(args.sourceFiles)
          /\ \A n \in 1 .. Len(args.commands) :
               /\ SelectSeq(ChildArgs(n), IsSource) = <<args.sourceFiles[n]>>
               /\ SelectSeq(ChildArgs(n), LAMBDA arg : ~IsSource(arg))
                     = SelectSeq(args.cmdLine, LAMBDA arg : ~IsSource(arg))

C25_Witness ==
    /\ args.st = "fanout"
    /\ args.cmdLine = <<<<"/", "c">>, <<"a">>, <<"/", "M", "P", "2">>, <<"b">>>>
    /\ args.commands = <<Self \o <<<<"/", "c">>, <<"a">>, <<"/", "M", "P", "2">>>>,
                         Self \o <<<<"/", "c">>, <<"/", "M", "P", "2">>, <<"b">>>>>>

\* the /MP switches of the CL variable followed by the command line
MPSwitches ==
    SelectSeq(args.CL \o args.cmdLine,
              LAMBDA switch : switch = <<"/", "M", "P">> \/ IsMPSwitch(switch))

\* C26: jobCount returns the parallelism of the last /MP switch of CL followed
\* by the command line: /MPn yields n, a bare /MP the number of logical CPUs,
\* no /MP switch yields 1.
C26_JobCountLastWins ==
    args.st = "fanout"
       => args.j = IF MPSwitches = <<>> THEN 1
                   ELSE LET last == MPSwitches[Len(MPSwitches)]
                        IN  IF last = <<"/", "M", "P">> THEN cpu_count
                            ELSE int(SubSeq(last, 4, Len(last)))

C26_Witness ==
    /\ args.st = "fanout" /\ args.j = 2
    /\ args.CL = <<<<"/", "M", "P", "3">>>>
    /\ args.cmdLine[4] = <<"/", "M", "P", "2">>

Has(arg) == InList(arg, args.cmdLine)

\* every option that takes a parameter carries it in the same argument
Attached == \A i \in 1 .. Len(args.cmdLine) :
                args.cmdLine[i][1] = "/" => Tail(args.cmdLine[i]) \notin
                    {optionsWithParameter[o] : o \in 1 .. Len(optionsWithParameter)}

\* the source arguments: plain ones, and those given with /Tp or /Tc
PlainSources == SelectSeq(args.cmdLine, LAMBDA arg : arg[1] \notin {"/", "-", "@"})
TypedSources ==
    SelectSeq(args.cmdLine, LAMBDA arg : /\ Len(arg) > 3
                                         /\ SubSeq(arg, 1, 3) \in {<<"/", "T", "p">>,
                                                                    <<"/", "T", "c">>})

SizeCounters == {"CacheEntries", "CacheSize"}

C29_RemovesNoMoreThanNeeded ==
    [][/\ \A p \in Procs :
            (Leaves(p, "clean") /\ ~Raises(p) /\ mstats[p]["CacheSize"] < ev[p].max)
                => /\ cache' = cache
                   /\ mstats'[p] = mstats[p]
                   /\ pc'[p] # "evict"
       /\ \A k \in Keys :
            Removes(k) => \E p \in Procs : /\ pc[p] = "evict"
                                           /\ ev[p].size0 >= ev[p].max
                                           /\ 10 * ev[p].cur >= 9 * ev[p].max]_vars

\* a pass has removed the older entry, its running size is still at or above
\* 0.9 x maximumSize and it is removing the next entry
C29_Witness ==
    \E p \in Procs :
        /\ pc[p] = "evict"
        /\ Len(ev[p].todo) = 1
        /\ ev[p].cur < ev[p].size0
        /\ 10 * ev[p].cur >= 9 * ev[p].max
        /\ ~cache["k2"].dir
        /\ FilesOf(cache["k1"]) # EntryFiles

\* the positions of a wrapper between its hit check and its exit
HitPoints == {"hit", "hit_copy", "hit_replay"}

C32_EveryInvocationExits == <>(args.st = "exited")

\* a fan-out whose child command carries the command line of its parent
C32_Witness ==
    /\ args.st = "fanout"
    /\ \E n \in 1 .. Len(args.commands) : ChildArgs(n) = args.cmdLine

====
